---- MODULE Spec2Model ----
(***************************************************************************)
(* monaco-css (CSS-in-JS fork): the document wrapper of CSSInJSWorker and  *)
(* the position/result translation of the language-feature adapters.       *)
(*                                                                         *)
(* A raw document is a sequence of characters.  The worker wraps it in a   *)
(* synthetic rule, the analyzer (vscode-css-languageservice, a black box)  *)
(* answers in coordinates of the wrapped text, and the adapters convert    *)
(* the answer to editor coordinates (1-based line numbers and columns).    *)
(***************************************************************************)
EXTENDS Integers, Sequences, FiniteSets, TLC

VARIABLES
    text,       \* editor model: current value (model.getValue())
    version,    \* editor model: current version (model.getVersionId())
    req,        \* the request in flight: provider call -> worker call -> result
    out,        \* what a provider call hands to its caller in this step
    other,      \* a second request in flight, waiting for its next step
    modeConfiguration,  \* defaults.modeConfiguration: the feature flags
    providers,      \* setupMode: the registrations it holds, in order
    disposables,    \* setupMode: what its returned disposable disposes
    adapter,        \* the DiagnosticsAdapter: its construction and its fields
    editorModel,    \* the editor model of the uri: absent, or its language
    _listener,      \* _listener[uri]: the content listener with its timer handle
    stale,          \* timers still pending whose listener was disposed
    sinceChange,    \* time since the model's last content change
    passes,         \* validation passes (_doValidate) in progress
    markers,        \* markers of the model as last given to setModelMarkers
    pass,           \* how a validation pass ended in this step, if one did
    manager,        \* the WorkerManager: its construction and its fields
    workers,        \* the web workers created so far, and whether disposed
    calls,          \* getLanguageServiceWorker calls in progress
    served          \* how the last getLanguageServiceWorker call ended

\* the provider pipeline
providerVars == <<text, version, req, out, other>>

\* the DiagnosticsAdapter and the model it watches
validationVars ==
    <<adapter, editorModel, _listener, stale, sinceChange, passes, markers, pass>>

\* the mode: the defaults' flags and what setupMode registered
modeVars == <<modeConfiguration, providers, disposables>>

\* the WorkerManager and its workers
managerVars == <<manager, workers, calls, served>>

\* what a provider call leaves alone
outside == <<other, modeVars, validationVars, managerVars>>

vars == <<providerVars, modeVars, validationVars, managerVars>>

(***************************************************************************)
(* Bounds                                                                  *)
(***************************************************************************)
MaxLen == 2         \* longest raw text, in characters
MaxVersion == 2     \* highest model version reached by edits
MaxStale == 1       \* most timers pending at once behind disposed listeners
MaxPasses == 2      \* most validation passes in progress at once
MaxWorkers == 2     \* most web workers created by one WorkerManager
MaxCalls == 2       \* most getLanguageServiceWorker calls in progress at once

NL == "\n"
TAB == "\t"
SP == " "
Alphabet == {"a", NL}

RECURSIVE TextsOfLen(_)
TextsOfLen(n) ==
    IF n = 0 THEN {<<>>}
    ELSE {Append(t, c) : t \in TextsOfLen(n - 1), c \in Alphabet}

Texts == UNION {TextsOfLen(n) : n \in 0..MaxLen}

\* JavaScript's undefined
Undefined == [undefined |-> TRUE]

\* a JavaScript array with the elements of the sequence s
Array(s) == [array |-> s]

(***************************************************************************)
(* Text documents: lines and positions (TextDocument of the analyzer and   *)
(* the editor model agree on line breaks)                                  *)
(***************************************************************************)
RECURSIVE SplitLines(_, _, _)
SplitLines(t, i, cur) ==
    IF i > Len(t) THEN <<cur>>
    ELSE IF t[i] = NL THEN <<cur>> \o SplitLines(t, i + 1, <<>>)
    ELSE SplitLines(t, i + 1, Append(cur, t[i]))

\* the lines of a text; a text without a line break is one line
Lines(t) == SplitLines(t, 1, <<>>)

LineCount(t) == Len(Lines(t))

RECURSIVE LineStart(_, _)
\* offset of the first character of 0-based line l
LineStart(t, l) ==
    IF l = 0 THEN 0 ELSE LineStart(t, l - 1) + Len(Lines(t)[l]) + 1

\* TextDocument.offsetAt for a position inside the text
offsetAt(t, pos) == LineStart(t, pos.line) + pos.character

\* the zero-based positions of a text
PositionsOf(t) ==
    LET lines == Lines(t)
    IN  UNION {{[line |-> l, character |-> c] : c \in 0..Len(lines[l + 1])} :
            l \in 0..(Len(lines) - 1)}

\* the editor positions (lineNumber, column from 1) inside a raw text
EditorPositions(t) ==
    LET lines == Lines(t)
    IN  UNION {{[lineNumber |-> l, column |-> c] : c \in 1..(Len(lines[l]) + 1)} :
            l \in 1..Len(lines)}

PosLE(p, q) == p.line < q.line \/ (p.line = q.line /\ p.character <= q.character)

(***************************************************************************)
(* CSSInJSWorker: the document wrapper                                     *)
(***************************************************************************)
\* the template literal of _getTextDocument, up to the interpolation
TemplateHead ==
    <<".", "t", "h", "i", "s", "-", "e", "l", "e", "m", "e", "n", "t", SP, "{",
      NL, TAB, TAB, SP>>

\* the template literal of _getTextDocument, after the interpolation
TemplateTail == <<NL, TAB, TAB, "}">>

\* the model's value with a final line break removed, as a trimming wrapper
\* would read it
ValueOrEmpty_trimmed(model) ==
    IF model = Undefined THEN <<>>
    ELSE IF model.value # <<>> /\ model.value[Len(model.value)] = NL
    THEN SubSeq(model.value, 1, Len(model.value) - 1)
    ELSE model.value

\* model?.getValue() || ''
ValueOrEmpty(model) ==
    IF model = Undefined THEN <<>>
    ELSE IF model.value = <<>> THEN <<>> ELSE model.value

\* the wrapped text that _getTextDocument builds
WrappedValue(model) == TemplateHead \o ValueOrEmpty(model) \o TemplateTail

\* _getTextDocument(uri, model): the document handed to the analyzer, or the
\* TypeError of dereferencing a model that is not an editor model
\*   model = undefined: model?.getValue() is undefined, model.getVersionId() throws
\*   model = a folding context: model?.getValue() calls undefined and throws
_getTextDocument(model) ==
    IF model = Undefined \/ "value" \notin DOMAIN model
    THEN [threw |-> TRUE]
    ELSE [threw |-> FALSE, text |-> WrappedValue(model), version |-> model.versionId]

\* mapPos of the worker
mapPos(position) == position

\* mapRange of the worker
mapRange(range) == [start |-> mapPos(range.start), end |-> mapPos(range.end)]

(***************************************************************************)
(* languageFeatures.ts: conversions between editor and analyzer values.    *)
(* Only the coordinate-bearing fields of a value are kept.                 *)
(***************************************************************************)
\* new ieditor.Range(startLineNumber, startColumn, endLineNumber, endColumn)
Range(startLineNumber, startColumn, endLineNumber, endColumn) ==
    [startLineNumber |-> startLineNumber, startColumn |-> startColumn,
     endLineNumber |-> endLineNumber, endColumn |-> endColumn]

toDiagnostics(diag) ==
    [startLineNumber |-> diag.range.start.line + 1,
     startColumn |-> diag.range.start.character + 1,
     endLineNumber |-> diag.range.end.line + 1,
     endColumn |-> diag.range.end.character + 1]

\* fromPosition with the editor's line number made zero-based
fromPosition_zeroBasedLine(position) ==
    IF position = Undefined THEN Undefined
    ELSE [character |-> position.column - 1, line |-> position.lineNumber - 1]

fromPosition(position) ==
    IF position = Undefined THEN Undefined
    ELSE [character |-> position.column - 1, line |-> position.lineNumber]

fromRange(range) ==
    IF range = Undefined THEN Undefined
    ELSE [start |-> [line |-> range.startLineNumber,
                     character |-> range.startColumn - 1],
          end |-> [line |-> range.endLineNumber,
                   character |-> range.endColumn - 1]]

\* toRange with the line converted as toDiagnostics converts it
toRange_oneBasedLine(range) ==
    IF range = Undefined THEN Undefined
    ELSE Range(range.start.line + 1, range.start.character + 1,
               range.end.line + 1, range.end.character + 1)

toRange(range) ==
    IF range = Undefined THEN Undefined
    ELSE Range(range.start.line, range.start.character + 1,
               range.end.line, range.end.character + 1)

isInsertReplaceEdit(edit) ==
    "insert" \in DOMAIN edit /\ "replace" \in DOMAIN edit

toTextEdit(textEdit) ==
    IF textEdit = Undefined THEN Undefined
    ELSE [range |-> toRange(textEdit.range)]

toLocation(location) ==
    [uri |-> location.uri, range |-> toRange(location.range)]

\* one resource edit per text edit of one entry of edit.changes
ResourceEdits(change) ==
    [i \in 1..Len(change.edits.array) |->
        [resource |-> change.uri,
         edit |-> [range |-> toRange(change.edits.array[i].range)]]]

RECURSIVE AllResourceEdits(_)
AllResourceEdits(changes) ==
    IF changes = <<>> THEN <<>>
    ELSE ResourceEdits(Head(changes)) \o AllResourceEdits(Tail(changes))

\* edit.changes is the array of the entries (uri, edits) of the object
toWorkspaceEdit(edit) ==
    IF edit = Undefined \/ edit.changes = Undefined THEN Undefined
    ELSE [edits |-> Array(AllResourceEdits(edit.changes.array))]

(***************************************************************************)
(* languageFeatures.ts: what each adapter makes of the worker's answer     *)
(***************************************************************************)
\* DiagnosticsAdapter._doValidate: the markers given to setModelMarkers
_doValidate(diagnostics) == Array([i \in 1..Len(diagnostics.array) |-> toDiagnostics(diagnostics.array[i])])

\* one completion entry; wordRange is the range of the word at the position
CompletionItem(entry, wordRange) ==
    [range |->
        IF entry.textEdit = Undefined THEN wordRange
        ELSE IF isInsertReplaceEdit(entry.textEdit)
        THEN [insert |-> toRange(entry.textEdit.insert),
              replace |-> toRange(entry.textEdit.replace)]
        ELSE toRange(entry.textEdit.range),
     additionalTextEdits |->
        IF entry.additionalTextEdits = Undefined THEN Undefined
        ELSE Array([i \in 1..Len(entry.additionalTextEdits.array) |-> toTextEdit(entry.additionalTextEdits.array[i])])]

\* CompletionAdapter.provideCompletionItems; wordInfo is what
\* model.getWordUntilPosition(position) answers
provideCompletionItems(info, position, wordInfo) ==
    IF info = Undefined THEN Undefined
    ELSE LET wordRange == Range(position.lineNumber, wordInfo.startColumn,
                                position.lineNumber, wordInfo.endColumn)
         IN  [suggestions |->
                Array([i \in 1..Len(info.items.array) |->
                    CompletionItem(info.items.array[i], wordRange)])]

\* provideHover without its check of the worker's answer
provideHover_unchecked(info) ==
    [range |-> toRange(IF info = Undefined THEN Undefined ELSE info.range)]

\* HoverAdapter.provideHover
provideHover(info) ==
    IF info = Undefined THEN Undefined
    ELSE [range |-> toRange(info.range)]

DocumentHighlight(entry) == [range |-> toRange(entry.range)]

\* DocumentHighlightAdapter.provideDocumentHighlights
provideDocumentHighlights(entries) ==
    IF entries = Undefined THEN Undefined
    ELSE Array([i \in 1..Len(entries.array) |-> DocumentHighlight(entries.array[i])])

\* DefinitionAdapter.provideDefinition
provideDefinition(definition) ==
    IF definition = Undefined THEN Undefined
    ELSE Array(<<toLocation(definition)>>)

\* ReferenceAdapter.provideReferences
provideReferences(entries) ==
    IF entries = Undefined THEN Undefined
    ELSE Array([i \in 1..Len(entries.array) |-> toLocation(entries.array[i])])

\* RenameAdapter.provideRenameEdits
provideRenameEdits(edit) == toWorkspaceEdit(edit)

DocumentSymbol(item) ==
    [range |-> toRange(item.location.range),
     selectionRange |-> toRange(item.location.range)]

\* DocumentSymbolAdapter.provideDocumentSymbols
provideDocumentSymbols(items) ==
    IF items = Undefined THEN Undefined
    ELSE Array([i \in 1..Len(items.array) |-> DocumentSymbol(items.array[i])])

ColorInformation(item) == [range |-> toRange(item.range)]

\* DocumentColorAdapter.provideDocumentColors
provideDocumentColors(infos) ==
    IF infos = Undefined THEN Undefined
    ELSE Array([i \in 1..Len(infos.array) |-> ColorInformation(infos.array[i])])

ColorPresentation(presentation) ==
    [textEdit |->
        IF presentation.textEdit = Undefined THEN Undefined
        ELSE toTextEdit(presentation.textEdit),
     additionalTextEdits |->
        IF presentation.additionalTextEdits = Undefined THEN Undefined
        ELSE Array([i \in 1..Len(presentation.additionalTextEdits.array) |-> toTextEdit(presentation.additionalTextEdits.array[i])])]

\* DocumentColorAdapter.provideColorPresentations
provideColorPresentations(presentations) ==
    IF presentations = Undefined THEN Undefined
    ELSE Array([i \in 1..Len(presentations.array) |-> ColorPresentation(presentations.array[i])])

FoldingRange(range) == [start |-> range.startLine + 1, end |-> range.endLine + 1]

\* FoldingRangeAdapter.provideFoldingRanges
provideFoldingRanges(ranges) ==
    IF ranges = Undefined THEN Undefined
    ELSE Array([i \in 1..Len(ranges.array) |-> FoldingRange(ranges.array[i])])

RECURSIVE SelectionChain(_)
\* the while loop over selectionRange.parent
SelectionChain(selectionRange) ==
    IF selectionRange = Undefined THEN <<>>
    ELSE <<[range |-> toRange(selectionRange.range)]>>
            \o SelectionChain(selectionRange.parent)

SelectionResult(selectionRange) == Array(SelectionChain(selectionRange))

\* SelectionRangeAdapter.provideSelectionRanges
provideSelectionRanges(selectionRanges) ==
    IF selectionRanges = Undefined THEN Undefined
    ELSE Array([i \in 1..Len(selectionRanges.array) |-> SelectionResult(selectionRanges.array[i])])

(***************************************************************************)
(* The analyzer (vscode-css-languageservice), a black box: any answer      *)
(* whose coordinates lie in the document it was given.  Its answers are    *)
(* bounded to lists of at most one item, and its positions to the content  *)
(* and to the first and last position of a line: positions inside the      *)
(* selector, the indentation and the closing line are left out.            *)
(***************************************************************************)
AnalyzerPositions(d) ==
    LET lines == Lines(d)
    IN  {p \in PositionsOf(d) :
            \/ p.character \in {0, Len(lines[p.line + 1])}
            \/ /\ offsetAt(d, p) >= Len(TemplateHead)
               /\ offsetAt(d, p) <= Len(d) - Len(TemplateTail)}

AnalyzerRanges(d) ==
    LET positions == AnalyzerPositions(d)
    IN  {r \in [start : positions, end : positions] : PosLE(r.start, r.end)}

Items(S) == {Array(<<>>)} \cup {Array(<<x>>) : x \in S}

OrUndefined(S) == {Undefined} \cup S

DocUri == "file:///doc"

TextEdits(d) == {[range |-> r] : r \in AnalyzerRanges(d)}

Locations(d) == {[uri |-> DocUri, range |-> r] : r \in AnalyzerRanges(d)}

CompletionEntries(d) ==
    {[textEdit |-> Undefined, additionalTextEdits |-> Undefined]}
    \cup {[textEdit |-> e, additionalTextEdits |-> Undefined] : e \in TextEdits(d)}
    \cup {[textEdit |-> [insert |-> [start |-> r.start, end |-> r.start],
                         replace |-> r],
           additionalTextEdits |-> Undefined] : r \in AnalyzerRanges(d)}
    \cup {[textEdit |-> Undefined, additionalTextEdits |-> Array(<<e>>)] : e \in TextEdits(d)}

ColorPresentations(d) ==
    {[textEdit |-> Undefined, additionalTextEdits |-> Undefined]}
    \cup {[textEdit |-> e, additionalTextEdits |-> Undefined] : e \in TextEdits(d)}
    \cup {[textEdit |-> Undefined, additionalTextEdits |-> Array(<<e>>)] : e \in TextEdits(d)}

\* the range of the whole document
WholeRange(d) ==
    [start |-> [line |-> 0, character |-> 0],
     end |-> [line |-> LineCount(d) - 1, character |-> Len(Lines(d)[LineCount(d)])]]

SelectionRanges(d) ==
    {[range |-> r, parent |-> Undefined] : r \in AnalyzerRanges(d)}
    \cup {[range |-> r, parent |-> [range |-> WholeRange(d), parent |-> Undefined]] :
            r \in AnalyzerRanges(d)}

FoldingRanges(d) ==
    {f \in [startLine : 0..(LineCount(d) - 1), endLine : 0..(LineCount(d) - 1)] :
        f.startLine < f.endLine}

PositionOps ==
    {"doComplete", "doHover", "findDocumentHighlights", "findDefinition",
     "findReferences", "doRename", "getSelectionRanges"}

RangeOps == {"getColorPresentations"}

DocumentOps ==
    {"doValidation", "findDocumentSymbols", "findDocumentColors", "getFoldingRanges"}

Ops == PositionOps \cup RangeOps \cup DocumentOps

AnalyzerResults(op, d) ==
    CASE op = "doValidation" -> Items(TextEdits(d))
      [] op = "doComplete" ->
            OrUndefined({[items |-> is] : is \in Items(CompletionEntries(d))})
      [] op = "doHover" ->
            OrUndefined({[range |-> r] : r \in OrUndefined(AnalyzerRanges(d))})
      [] op = "findDocumentHighlights" -> OrUndefined(Items(TextEdits(d)))
      [] op = "findDefinition" -> OrUndefined(Locations(d))
      [] op = "findReferences" -> OrUndefined(Items(Locations(d)))
      [] op = "doRename" ->
            OrUndefined({[changes |-> Undefined]}
                \cup {[changes |-> Array(<<[uri |-> DocUri, edits |-> es]>>)] :
                        es \in Items(TextEdits(d))})
      [] op = "findDocumentSymbols" ->
            OrUndefined(Items({[location |-> l] : l \in Locations(d)}))
      [] op = "findDocumentColors" -> OrUndefined(Items(TextEdits(d)))
      [] op = "getColorPresentations" -> OrUndefined(Items(ColorPresentations(d)))
      [] op = "getFoldingRanges" -> OrUndefined(Items(FoldingRanges(d)))
      [] op = "getSelectionRanges" -> OrUndefined({Array(<<x>>) : x \in SelectionRanges(d)})

(***************************************************************************)
(* One provider call: the adapter asks the accessor for the worker, calls  *)
(* the worker method, and converts what the worker resolves with.          *)
(***************************************************************************)
Idle ==
    [stage |-> "idle", op |-> "none", position |-> Undefined, range |-> Undefined,
     model |-> Undefined, document |-> Undefined, passed |-> Undefined,
     analyzed |-> Undefined]

\* nothing is handed to a caller in this step
NoOutput == [stage |-> "none", op |-> "none"]

\* the editor model as the worker reads it: getValue() and getVersionId()
Snapshot == [value |-> text, versionId |-> version]

\* the context object of a folding request
FoldingContext == [context |-> TRUE]

\* a range of the raw text, in editor coordinates
EditorRanges(t) ==
    LET positions == EditorPositions(t)
    IN  {r \in {Range(p.lineNumber, p.column, q.lineNumber, q.column) :
                    p \in positions, q \in positions} :
            \/ r.startLineNumber < r.endLineNumber
            \/ r.startLineNumber = r.endLineNumber /\ r.startColumn <= r.endColumn}

\* the flags of a mode configuration, and what a flag can hold
Flags ==
    {"completionItems", "hovers", "documentSymbols", "definitions", "references",
     "documentHighlights", "rename", "colors", "foldingRanges", "diagnostics",
     "selectionRanges"}

FlagValues == {"true", "false", "undefined"}

modeConfigurationDefault == [f \in Flags |-> "true"]

LanguageId == "cssInJs"

\* setupMode has not been called
NoMode == providers = <<>> /\ disposables = Undefined

\* no WorkerManager has been constructed
Null == [null |-> TRUE]

NoManager ==
    /\ manager = [state |-> "none", _worker |-> Undefined, _client |-> Undefined,
                  _idleCheckInterval |-> Undefined, _lastUsedTime |-> Undefined,
                  _configChangeListener |-> FALSE, stoppedBy |-> "none"]
    /\ workers = <<>>
    /\ calls = <<>>
    /\ served = [outcome |-> "none", client |-> Undefined, synced |-> Undefined,
                 disposed |-> FALSE, reason |-> "none"]

\* setupValidation has not been called
NoAdapter ==
    [state |-> "none", _languageId |-> "none", _worker |-> "none",
     defaults |-> "none", onDidChange |-> FALSE]

\* no validation pass has ended
NoPass ==
    [outcome |-> "none", found |-> Undefined, disposed |-> FALSE,
     overtaken |-> FALSE]

\* no DiagnosticsAdapter exists and no model is being validated
NoValidation ==
    /\ adapter = NoAdapter
    /\ editorModel = Undefined
    /\ _listener = Undefined
    /\ stale = <<>>
    /\ sinceChange = Undefined
    /\ passes = <<>>
    /\ markers = Array(<<>>)
    /\ pass = NoPass

Init ==
    /\ text \in Texts
    /\ version = 1
    /\ req = Idle
    /\ out = NoOutput
    /\ other = Idle
    /\ modeConfiguration = modeConfigurationDefault
    /\ NoMode
    /\ NoValidation
    /\ NoManager

\* the user edits the model
Edit(t) ==
    /\ t # text
    /\ text' = t
    /\ version' = version + 1
    /\ UNCHANGED <<req, out, outside>>

EditAny ==
    /\ out = NoOutput
    /\ version < MaxVersion
    /\ \E t \in Texts : Edit(t)

\* a provider method (or _doValidate) is called: this._worker(resource)
Provide(op, position, range) ==
    /\ out = NoOutput
    /\ req.stage = "idle"
    /\ req' = [Idle EXCEPT !.stage = "accessor", !.op = op,
                           !.position = position, !.range = range]
    /\ UNCHANGED <<text, version, out, outside>>

ProvideAny ==
    /\ out = NoOutput
    /\ req.stage = "idle"
    /\ \/ \E op \in PositionOps, position \in EditorPositions(text) :
            Provide(op, position, Undefined)
       \/ \E range \in EditorRanges(text) :
            Provide("getColorPresentations", Undefined, range)
       \/ \E op \in DocumentOps : Provide(op, Undefined, Undefined)

\* the arguments after the uri in the adapter's call of the worker method
AdapterArguments(r) ==
    IF r.op \in PositionOps THEN <<fromPosition(r.position)>>
    ELSE IF r.op \in RangeOps THEN <<fromRange(r.range)>>
    ELSE IF r.op = "getFoldingRanges" THEN <<FoldingContext>>
    ELSE <<>>

\* the worker method r.op, called with the arguments args after the uri, up
\* to its call of the analyzer: the document is built and the input mapped
WorkerMethod(r, args) ==
    LET hasInput == r.op \in PositionOps \cup RangeOps
        input == IF hasInput /\ Len(args) >= 1 THEN args[1] ELSE Undefined
        modelAt == IF hasInput THEN 2 ELSE 1
        model == IF Len(args) >= modelAt THEN args[modelAt] ELSE Undefined
        document == _getTextDocument(model)
        called == [r EXCEPT !.model = model, !.passed = input]
    IN  IF document.threw
        THEN [called EXCEPT !.stage = "rejected"]
        ELSE [called EXCEPT !.stage = "resolved", !.document = document,
                            !.analyzed = IF r.op \in PositionOps THEN mapPos(input)
                                         ELSE IF r.op \in RangeOps THEN mapRange(input)
                                         ELSE Undefined]

\* .then((worker) => worker.op(resource.toString(), ...)): the call as the
\* adapters make it
AdapterCall ==
    /\ req.stage = "accessor"
    /\ req' = WorkerMethod(req, AdapterArguments(req))
    /\ UNCHANGED <<text, version, out, outside>>

\* the worker method called as it is declared, with the editor model as its
\* last argument
WorkerCall ==
    /\ req.stage = "accessor"
    /\ req' = WorkerMethod(req,
            IF req.op = "getFoldingRanges" THEN <<Snapshot, FoldingContext>>
            ELSE Append(AdapterArguments(req), Snapshot))
    /\ UNCHANGED <<text, version, out, outside>>

\* the adapter's conversion of the worker's answer
Converted(r, result, wordInfo) ==
    CASE r.op = "doValidation" -> _doValidate(result)
      [] r.op = "doComplete" -> provideCompletionItems(result, r.position, wordInfo)
      [] r.op = "doHover" -> provideHover(result)
      [] r.op = "findDocumentHighlights" -> provideDocumentHighlights(result)
      [] r.op = "findDefinition" -> provideDefinition(result)
      [] r.op = "findReferences" -> provideReferences(result)
      [] r.op = "doRename" -> provideRenameEdits(result)
      [] r.op = "findDocumentSymbols" -> provideDocumentSymbols(result)
      [] r.op = "findDocumentColors" -> provideDocumentColors(result)
      [] r.op = "getColorPresentations" -> provideColorPresentations(result)
      [] r.op = "getFoldingRanges" -> provideFoldingRanges(result)
      [] r.op = "getSelectionRanges" -> provideSelectionRanges(result)

\* what model.getWordUntilPosition(position) can answer
WordInfos(r) ==
    IF r.op = "doComplete"
    THEN {[startColumn |-> c, endColumn |-> r.position.column] :
            c \in 1..r.position.column}
    ELSE {Undefined}

\* Deliver with the analyzer run on the document's latest text
Deliver_latestText ==
    /\ req.stage = "resolved"
    /\ \E result \in AnalyzerResults(req.op, _getTextDocument(Snapshot).text),
          wordInfo \in WordInfos(req) :
        out' = [stage |-> "delivered", op |-> req.op, model |-> req.model,
                document |-> req.document, result |-> result,
                value |-> Converted(req, result, wordInfo)]
    /\ req' = Idle
    /\ UNCHANGED <<text, version, outside>>

\* the worker's promise resolves with the analyzer's answer for the document
\* the worker built, and .then((result) => ...) converts it: the provider
\* resolves with the converted answer; _doValidate hands the markers to
\* setModelMarkers
Deliver ==
    /\ req.stage = "resolved"
    /\ \E result \in AnalyzerResults(req.op, req.document.text), wordInfo \in WordInfos(req) :
        out' = [stage |-> "delivered", op |-> req.op, model |-> req.model,
                document |-> req.document, result |-> result,
                value |-> Converted(req, result, wordInfo)]
    /\ req' = Idle
    /\ UNCHANGED <<text, version, outside>>

\* the worker's promise is rejected: the provider's promise rejects;
\* _doValidate logs the error and sets no markers
Reject ==
    /\ req.stage = "rejected"
    /\ out' = [stage |-> IF req.op = "doValidation" THEN "logged" ELSE "rejected",
               op |-> req.op]
    /\ req' = Idle
    /\ UNCHANGED <<text, version, outside>>

\* the caller has taken what the provider's promise settled with
Settled ==
    /\ out # NoOutput
    /\ out' = NoOutput
    /\ UNCHANGED <<text, version, req, outside>>

Next ==
    \/ EditAny
    \/ ProvideAny
    \/ AdapterCall
    \/ WorkerCall
    \/ Deliver
    \/ Reject
    \/ Settled

Spec == Init /\ [][Next]_vars

(***************************************************************************)
(* Two requests in flight.  A worker method runs from its call to its      *)
(* return without a pause, so two requests interleave step by step: the    *)
(* one that is waiting is kept in `other`, and the two change places       *)
(* between steps.                                                          *)
(***************************************************************************)
ConcurrentOps == {"getFoldingRanges"}

\* a provider method is called while another request may be in flight
ProvideConcurrent ==
    /\ out = NoOutput
    /\ req.stage = "idle"
    /\ \E op \in ConcurrentOps : Provide(op, Undefined, Undefined)

\* the request that was waiting takes its next step
Switch ==
    /\ out = NoOutput
    /\ req # other
    /\ req' = other
    /\ other' = req
    /\ UNCHANGED <<text, version, out, modeVars, validationVars, managerVars>>

NextConcurrent ==
    \/ EditAny
    \/ ProvideConcurrent
    \/ AdapterCall
    \/ WorkerCall
    \/ Deliver
    \/ Reject
    \/ Settled
    \/ Switch

SpecConcurrent == Init /\ [][NextConcurrent]_vars

(***************************************************************************)
(* setupMode: it registers the providers of the features that the mode     *)
(* configuration enables, and returns a disposable that removes them.      *)
(***************************************************************************)
\* the flags registerProviders reads, in its order, and what each registers
Features ==
    <<"completionItems", "hovers", "documentHighlights", "definitions",
      "references", "documentSymbols", "rename", "colors", "foldingRanges",
      "selectionRanges">>

Registers ==
    [completionItems |-> "registerCompletionItemProvider",
     hovers |-> "registerHoverProvider",
     documentHighlights |-> "registerDocumentHighlightProvider",
     definitions |-> "registerDefinitionProvider",
     references |-> "registerReferenceProvider",
     documentSymbols |-> "registerDocumentSymbolProvider",
     rename |-> "registerRenameProvider",
     colors |-> "registerColorProvider",
     foldingRanges |-> "registerFoldingRangeProvider",
     selectionRanges |-> "registerSelectionRangeProvider"]

\* a flag read as a condition, with an absent flag taken as set
Truthy_unlessFalse(flag) == flag # "false"

\* a flag read as a condition: if (modeConfiguration.hovers) ...
Truthy(flag) == flag = "true"

\* registerProviders from its k-th flag on, with the registrations so far
RECURSIVE registerFrom(_, _, _, _)
registerFrom(k, languageId, configuration, registered) ==
    IF k > Len(Features) THEN registered
    ELSE registerFrom(k + 1, languageId, configuration,
            IF Truthy(configuration[Features[k]])
            THEN Append(registered, [languageId |-> languageId,
                                     register |-> Registers[Features[k]]])
            ELSE registered)

\* disposeAll(providers), then one registration for each enabled flag
registerProviders(languageId, configuration) ==
    registerFrom(1, languageId, configuration, <<>>)

setupMode ==
    /\ disposables = Undefined
    /\ providers' = registerProviders(LanguageId, modeConfiguration)
    /\ disposables' = Array(<<"providers">>)
    /\ UNCHANGED <<providerVars, managerVars, modeConfiguration, validationVars>>

\* the disposable setupMode returned: disposeAll(disposables), which
\* disposes all of the providers
dispose ==
    /\ disposables # Undefined
    /\ disposables # Array(<<>>)
    /\ providers' = <<>>
    /\ disposables' = Array(<<>>)
    /\ UNCHANGED <<providerVars, managerVars, modeConfiguration, validationVars>>

InitMode ==
    /\ text = <<>>
    /\ version = 1
    /\ req = Idle
    /\ out = NoOutput
    /\ other = Idle
    /\ modeConfiguration \in
        {c \in [Flags -> FlagValues] : c.diagnostics = "true"}
    /\ NoMode
    /\ NoValidation
    /\ NoManager

NextMode ==
    \/ setupMode
    \/ dispose

SpecMode == InitMode /\ [][NextMode]_vars

(***************************************************************************)
(* The DiagnosticsAdapter: it listens to the editor's model events, starts *)
(* a validation pass when a model of its language appears and, debounced,  *)
(* after content changes, and clears the markers when the model goes.      *)
(* Time passes in quanta of half the debounce delay.                       *)
(***************************************************************************)
ValidationDelay == 500

Quantum == ValidationDelay \div 2

Min(a, b) == IF a <= b THEN a ELSE b

Max(a, b) == IF a >= b THEN a ELSE b

\* a pending timeout that runs in t; a content change t ago
Timeout(t) == [in |-> t]

Ago(t) == [ago |-> t]

Remove(seq, i) == SubSeq(seq, 1, i - 1) \o SubSeq(seq, i + 1, Len(seq))

\* the part of the state the adapter's handlers change
AdapterState ==
    [_listener |-> _listener, stale |-> stale, passes |-> passes,
     markers |-> markers, pass |-> NoPass]

\* the handlers' result becomes the state
Becomes(s) ==
    /\ _listener' = s._listener
    /\ stale' = s.stale
    /\ passes' = s.passes
    /\ markers' = s.markers
    /\ pass' = s.pass

Fits(s) == Len(s.stale) <= MaxStale /\ Len(s.passes) <= MaxPasses

\* _doValidate up to this._worker(resource): the accessor gives a promise and
\* a pass is in progress; with a value that is no function in the accessor's
\* place the call throws into the handler that started the pass
_doValidate_accessor(a, s) ==
    IF a._worker = "wa"
    THEN [s EXCEPT !.passes = Append(@, [stage |-> "accessor", disposed |-> FALSE,
                                         overtaken |-> FALSE])]
    ELSE [s EXCEPT !.pass = [outcome |-> "thrown", found |-> Undefined,
                             disposed |-> FALSE, overtaken |-> FALSE]]

onModelAdd(a, s, m) ==
    IF m.modeId # a._languageId THEN s
    ELSE _doValidate_accessor(a, [s EXCEPT !._listener = [handle |-> Undefined]])

\* onModelRemoved without its call of setModelMarkers
onModelRemoved_markersKept(s) ==
    [s EXCEPT !._listener = Undefined,
              !.stale = IF s._listener # Undefined /\ s._listener.handle # Undefined
                        THEN Append(@, s._listener.handle.in) ELSE @]

\* the listener is disposed; a timeout it has set stays pending
onModelRemoved(s) ==
    [s EXCEPT !.markers = Array(<<>>),
              !._listener = Undefined,
              !.stale = IF s._listener # Undefined /\ s._listener.handle # Undefined
                        THEN Append(@, s._listener.handle.in) ELSE @]

\* new DiagnosticsAdapter(defaults.languageId, editor, worker, editorInjection)
\* in setupValidation: the editor is in the accessor's place and the worker in
\* the defaults' place; the model events are subscribed to, then
\* defaults.onDidChange(...) throws and the constructor ends there
setupValidation ==
    /\ adapter.state = "none"
    /\ adapter' = [state |-> "constructed", _languageId |-> LanguageId,
                   _worker |-> "editor", defaults |-> "worker",
                   onDidChange |-> FALSE]
    /\ UNCHANGED <<providerVars, managerVars, modeVars, editorModel, _listener, stale,
                   sinceChange, passes, markers>>
    /\ pass' = NoPass

\* the constructor called as it is declared, with the accessor wa and the
\* defaults: it subscribes to the model events and to defaults.onDidChange
\* and adds the models that exist
DiagnosticsAdapter ==
    /\ adapter.state = "none"
    /\ LET a == [state |-> "constructed", _languageId |-> LanguageId,
                 _worker |-> "wa", defaults |-> "defaults", onDidChange |-> TRUE]
       IN  /\ adapter' = a
           /\ Becomes(IF editorModel = Undefined THEN AdapterState
                      ELSE onModelAdd(a, AdapterState, editorModel))
    /\ UNCHANGED <<providerVars, managerVars, modeVars, editorModel, sinceChange>>

\* DiagnosticsAdapter.dispose(), on an adapter whose constructor returned:
\* the subscriptions to the editor's model events and the content listeners
\* are disposed; the subscription to defaults.onDidChange, which is not
\* among the _disposables, and the timeouts that are pending stay
DiagnosticsAdapter_dispose ==
    /\ adapter.state = "constructed"
    /\ adapter.onDidChange
    /\ LET s == [AdapterState EXCEPT
                    !._listener = Undefined,
                    !.stale = IF _listener # Undefined /\ _listener.handle # Undefined
                              THEN Append(@, _listener.handle.in) ELSE @]
       IN  Fits(s) /\ Becomes(s)
    /\ adapter' = [adapter EXCEPT !.state = "disposed"]
    /\ UNCHANGED <<providerVars, managerVars, modeVars, editorModel, sinceChange>>

\* the adapter hears the editor's model events
Subscribed(a) == a.state = "constructed"

\* editorInjection.onDidCreateModel(onModelAdd)
onDidCreateModel(modeId) ==
    /\ adapter.state # "none"
    /\ editorModel = Undefined
    /\ LET m == [modeId |-> modeId]
           s == IF Subscribed(adapter)
                THEN onModelAdd(adapter, AdapterState, m) ELSE AdapterState
       IN  /\ Fits(s)
           /\ editorModel' = m
           /\ Becomes(s)
    /\ sinceChange' = Undefined
    /\ UNCHANGED <<providerVars, managerVars, modeVars, adapter>>

\* editorInjection.onWillDisposeModel(onModelRemoved)
onWillDisposeModel ==
    /\ adapter.state # "none"
    /\ editorModel # Undefined
    /\ LET s == IF Subscribed(adapter)
                THEN onModelRemoved(AdapterState) ELSE AdapterState
       IN  /\ Fits(s)
           /\ Becomes([s EXCEPT !.passes =
                    [i \in DOMAIN s.passes |-> [s.passes[i] EXCEPT !.disposed = TRUE]]])
    /\ editorModel' = Undefined
    /\ sinceChange' = Undefined
    /\ UNCHANGED <<providerVars, managerVars, modeVars, adapter>>

\* editorInjection.onDidChangeModelLanguage: onModelRemoved, then onModelAdd
onDidChangeModelLanguage(modeId) ==
    /\ adapter.state # "none"
    /\ editorModel # Undefined
    /\ modeId # editorModel.modeId
    /\ LET m == [modeId |-> modeId]
           s == IF Subscribed(adapter)
                THEN onModelAdd(adapter, onModelRemoved(AdapterState), m)
                ELSE AdapterState
       IN  /\ Fits(s)
           /\ editorModel' = m
           /\ Becomes(s)
    /\ sinceChange' = Undefined
    /\ UNCHANGED <<providerVars, managerVars, modeVars, adapter>>

\* the model's content changes: the listener, where there is one, clears its
\* timeout and sets a new one
onDidChangeContent ==
    /\ adapter.state # "none"
    /\ editorModel # Undefined
    /\ sinceChange' = Ago(0)
    /\ _listener' = IF _listener = Undefined THEN _listener
                    ELSE [handle |-> Timeout(ValidationDelay)]
    /\ UNCHANGED <<providerVars, managerVars, modeVars, adapter, editorModel, stale,
                   passes, markers>>
    /\ pass' = NoPass

\* setOptions or setModeConfiguration fires the defaults' onDidChange: an
\* adapter that listens removes and adds again each model of its language
onDidChange(diagnostics) ==
    /\ adapter.state # "none"
    /\ modeConfiguration' = [modeConfiguration EXCEPT !.diagnostics = diagnostics]
    /\ IF adapter.onDidChange /\ editorModel # Undefined
            /\ editorModel.modeId = adapter._languageId
       THEN LET s == onModelAdd(adapter, onModelRemoved(AdapterState), editorModel)
            IN  Fits(s) /\ Becomes(s) /\ sinceChange' = Undefined
       ELSE pass' = NoPass /\ UNCHANGED <<_listener, stale, passes, markers, sinceChange>>
    /\ UNCHANGED <<providerVars, managerVars, providers, disposables, adapter, editorModel>>

\* a quantum of time passes; a timeout that is due runs before more time does
Tick ==
    /\ _listener # Undefined => _listener.handle # Timeout(0)
    /\ \A i \in DOMAIN stale : stale[i] # 0
    /\ \/ _listener # Undefined /\ _listener.handle # Undefined
       \/ stale # <<>>
       \/ sinceChange # Undefined /\ sinceChange.ago < ValidationDelay
    /\ _listener' = IF _listener = Undefined \/ _listener.handle = Undefined
                    THEN _listener
                    ELSE [handle |-> Timeout(Max(0, _listener.handle.in - Quantum))]
    /\ stale' = [i \in DOMAIN stale |-> Max(0, stale[i] - Quantum)]
    /\ sinceChange' = IF sinceChange = Undefined THEN sinceChange
                      ELSE Ago(Min(ValidationDelay, sinceChange.ago + Quantum))
    /\ UNCHANGED <<providerVars, managerVars, modeVars, adapter, editorModel, passes,
                   markers>>
    /\ pass' = NoPass

\* a timeout runs: () => this._doValidate(model.uri, modeId)
TimerFires ==
    /\ \/ /\ _listener # Undefined
          /\ _listener.handle = Timeout(0)
          /\ LET s == _doValidate_accessor(adapter,
                        [AdapterState EXCEPT !._listener = [handle |-> Undefined]])
             IN  Fits(s) /\ Becomes(s)
       \/ \E i \in DOMAIN stale :
            /\ stale[i] = 0
            /\ LET s == _doValidate_accessor(adapter,
                            [AdapterState EXCEPT !.stale = Remove(@, i)])
               IN  Fits(s) /\ Becomes(s)
    /\ UNCHANGED <<providerVars, managerVars, modeVars, adapter, editorModel, sinceChange>>

\* .then((worker) => worker.doValidation(...)) of pass i, called with args
ValidationCall(i, args) ==
    /\ passes[i].stage = "accessor"
    /\ passes' = [passes EXCEPT ![i].stage =
            WorkerMethod([Idle EXCEPT !.op = "doValidation"], args).stage]
    /\ UNCHANGED <<providerVars, managerVars, modeVars, adapter, editorModel, _listener,
                   stale, sinceChange, markers>>
    /\ pass' = NoPass

\* the call as _doValidate makes it: worker.doValidation(resource.toString())
ValidationAdapterCall ==
    \E i \in DOMAIN passes :
        ValidationCall(i, AdapterArguments([Idle EXCEPT !.op = "doValidation"]))

\* doValidation called as it is declared, with the model
ValidationWorkerCall ==
    \E i \in DOMAIN passes : ValidationCall(i, <<Snapshot>>)

\* what doValidation can resolve with for the model's text
ValidationAnswers ==
    LET d == _getTextDocument(Snapshot).text
    IN  {Array(<<>>), Array(<<[range |-> WholeRange(d)]>>)}

\* model && model.getModeId() === languageId
IsModelOf_anyModel(found, languageId) == TRUE

IsModelOf(found, languageId) == found # Undefined /\ found.modeId = languageId

\* the passes in progress, in the order of their requests, after pass i has
\* published: the passes requested before it are overtaken
Overtaken(inProgress, i) ==
    [j \in DOMAIN inProgress |->
        IF j < i THEN [inProgress[j] EXCEPT !.overtaken = TRUE] ELSE inProgress[j]]

\* .then((diagnostics) => ...): the markers are made and, if the uri still
\* names a model of the language, given to setModelMarkers
ValidationArrives ==
    \E i \in DOMAIN passes, diagnostics \in ValidationAnswers :
        /\ passes[i].stage = "resolved"
        /\ LET found == editorModel
               publish == IsModelOf(found, adapter._languageId)
           IN  /\ markers' = IF publish THEN _doValidate(diagnostics) ELSE markers
               /\ pass' = [outcome |-> IF publish THEN "published" ELSE "skipped",
                           found |-> found, disposed |-> passes[i].disposed,
                           overtaken |-> passes[i].overtaken]
               /\ passes' = Remove(IF publish THEN Overtaken(passes, i) ELSE passes, i)
        /\ UNCHANGED <<providerVars, managerVars, modeVars, adapter, editorModel,
                       _listener, stale, sinceChange>>

\* .then(undefined, (err) => console.error(err))
ValidationFails ==
    \E i \in DOMAIN passes :
        /\ passes[i].stage = "rejected"
        /\ pass' = [outcome |-> "logged", found |-> Undefined,
                    disposed |-> passes[i].disposed,
                    overtaken |-> passes[i].overtaken]
        /\ passes' = Remove(passes, i)
        /\ UNCHANGED <<providerVars, managerVars, modeVars, adapter, editorModel,
                       _listener, stale, sinceChange, markers>>

ModeIds == {LanguageId, "plaintext"}

InitValidation ==
    /\ text = <<>>
    /\ version = 1
    /\ req = Idle
    /\ out = NoOutput
    /\ other = Idle
    /\ modeConfiguration \in
            {[modeConfigurationDefault EXCEPT !.diagnostics = d] : d \in {"true", "false"}}
    /\ NoMode
    /\ adapter = NoAdapter
    /\ editorModel \in {Undefined} \cup {[modeId |-> m] : m \in ModeIds}
    /\ _listener = Undefined
    /\ stale = <<>>
    /\ sinceChange = Undefined
    /\ passes = <<>>
    /\ markers = Array(<<>>)
    /\ pass = NoPass
    /\ NoManager

NextValidation ==
    \/ setupValidation
    \/ DiagnosticsAdapter
    \/ DiagnosticsAdapter_dispose
    \/ \E modeId \in ModeIds : onDidCreateModel(modeId)
    \/ onWillDisposeModel
    \/ \E modeId \in ModeIds : onDidChangeModelLanguage(modeId)
    \/ onDidChangeContent
    \/ \E diagnostics \in {"true", "false"} : onDidChange(diagnostics)
    \/ Tick
    \/ TimerFires
    \/ ValidationAdapterCall
    \/ ValidationWorkerCall
    \/ ValidationArrives
    \/ ValidationFails

SpecValidation == InitValidation /\ [][NextValidation]_vars

(***************************************************************************)
(* The WorkerManager: it creates the web worker at the first request,      *)
(* stops it when the defaults change or when an idle check finds it        *)
(* unused for more than two minutes, and hands out the worker's client.    *)
(* Time passes in steps of half the idle-check interval; the time of the   *)
(* last use is kept as the time passed since.                              *)
(***************************************************************************)
STOP_WHEN_IDLE_FOR == 120000

IdleCheckInterval == 30000

TimeStep == IdleCheckInterval \div 2

\* from here on the time since the last use makes no difference
LongAgo == STOP_WHEN_IDLE_FOR + IdleCheckInterval + TimeStep

\* !value of a reference
Falsy(value) == value \in {Undefined, Null}

WorkerOf(i) == [worker |-> i]

\* timePassedSinceLastUsed > STOP_WHEN_IDLE_FOR, taken at the limit too
IsIdle_atTheLimit(timePassedSinceLastUsed) ==
    timePassedSinceLastUsed >= STOP_WHEN_IDLE_FOR

\* timePassedSinceLastUsed > STOP_WHEN_IDLE_FOR
IsIdle(timePassedSinceLastUsed) ==
    timePassedSinceLastUsed > STOP_WHEN_IDLE_FOR

\* _stopWorker without the worker's dispose()
_stopWorker_undisposed(m, w, by) ==
    [manager |-> [m EXCEPT !._worker = IF Falsy(m._worker) THEN @ ELSE Null,
                           !._client = Null,
                           !.stoppedBy = IF Falsy(m._worker) THEN @ ELSE by],
     workers |-> w]

\* _stopWorker, called by `by`: the worker is disposed and forgotten, the
\* client is forgotten; stoppedBy notes who stopped a worker last
_stopWorker(m, w, by) ==
    [manager |-> [m EXCEPT !._worker = IF Falsy(m._worker) THEN @ ELSE Null,
                           !._client = Null,
                           !.stoppedBy = IF Falsy(m._worker) THEN @ ELSE by],
     workers |-> IF Falsy(m._worker) THEN w
                 ELSE [w EXCEPT ![m._worker.worker] = [disposed |-> TRUE]]]

\* new WorkerManager(defaults, editor)
WorkerManager ==
    /\ manager.state = "none"
    /\ manager' = [state |-> "constructed", _worker |-> Null,
                   _client |-> Undefined,
                   _idleCheckInterval |-> Timeout(IdleCheckInterval),
                   _lastUsedTime |-> Ago(LongAgo),
                   _configChangeListener |-> TRUE, stoppedBy |-> "none"]
    /\ UNCHANGED <<providerVars, modeVars, validationVars, workers, calls, served>>

\* getLanguageServiceWorker up to the client's promise: _getClient notes the
\* time, creates the worker where there is no client, and gives the client
getLanguageServiceWorker ==
    /\ manager.state # "none"
    /\ Len(calls) < MaxCalls
    /\ Falsy(manager._client) => Len(workers) < MaxWorkers
    /\ LET created == Falsy(manager._client)
           w == IF created THEN WorkerOf(Len(workers) + 1) ELSE manager._worker
           c == IF created THEN w ELSE manager._client
       IN  /\ manager' = [manager EXCEPT !._lastUsedTime = Ago(0),
                                         !._worker = w, !._client = c]
           /\ workers' = IF created
                         THEN Append(workers, [disposed |-> FALSE])
                         ELSE workers
           /\ calls' = Append(calls, [stage |-> "client", client |-> c,
                                      synced |-> Undefined])
    /\ UNCHANGED <<providerVars, modeVars, validationVars, served>>

\* the client's promise resolves: .then((client) => { _client = client })
\* and .then((_) => this._worker.withSyncedResources(resources)); with no
\* worker the second callback throws and the call is rejected
ClientArrives ==
    \E i \in DOMAIN calls :
        /\ calls[i].stage = "client"
        /\ IF Falsy(manager._worker)
           THEN /\ calls' = Remove(calls, i)
                /\ served' = [outcome |-> "rejected", client |-> calls[i].client,
                              synced |-> Undefined, disposed |-> FALSE,
                              reason |-> "TypeError"]
           ELSE /\ calls' = [calls EXCEPT ![i].stage = "syncing",
                                          ![i].synced = manager._worker]
                /\ served' = served
        /\ UNCHANGED <<providerVars, modeVars, validationVars, manager, workers>>

\* withSyncedResources resolves: .then((_) => _client)
ResourcesSynced ==
    \E i \in DOMAIN calls :
        /\ calls[i].stage = "syncing"
        /\ calls' = Remove(calls, i)
        /\ served' = [outcome |-> "resolved", client |-> calls[i].client,
                      synced |-> calls[i].synced,
                      disposed |-> workers[calls[i].client.worker].disposed,
                      reason |-> "none"]
        /\ UNCHANGED <<providerVars, modeVars, validationVars, manager, workers>>

\* a promise of a worker that has been disposed (its proxy, or the syncing
\* of the resources) rejects
WorkerGone ==
    \E i \in DOMAIN calls :
        /\ IF calls[i].stage = "client"
           THEN workers[calls[i].client.worker].disposed
           ELSE workers[calls[i].synced.worker].disposed
        /\ calls' = Remove(calls, i)
        /\ served' = [outcome |-> "rejected", client |-> calls[i].client,
                      synced |-> calls[i].synced, disposed |-> TRUE,
                      reason |-> "disposed"]
        /\ UNCHANGED <<providerVars, modeVars, validationVars, manager, workers>>

\* the defaults change (setOptions, setModeConfiguration): the listener
\* () => this._stopWorker()
onDidChangeDefaults ==
    /\ manager._configChangeListener
    /\ LET s == _stopWorker(manager, workers, "change")
       IN  manager' = s.manager /\ workers' = s.workers
    /\ UNCHANGED <<providerVars, modeVars, validationVars, calls, served>>

\* the interval runs _checkIfIdle
_checkIfIdle ==
    /\ manager._idleCheckInterval = Timeout(0)
    /\ LET m == [manager EXCEPT !._idleCheckInterval = Timeout(IdleCheckInterval)]
           s == IF Falsy(m._worker) THEN [manager |-> m, workers |-> workers]
                ELSE IF IsIdle(m._lastUsedTime.ago)
                     THEN _stopWorker(m, workers, "idle")
                     ELSE [manager |-> m, workers |-> workers]
       IN  manager' = s.manager /\ workers' = s.workers
    /\ UNCHANGED <<providerVars, modeVars, validationVars, calls, served>>

\* WorkerManager.dispose()
WorkerManager_dispose ==
    /\ manager.state = "constructed"
    /\ LET s == _stopWorker([manager EXCEPT !.state = "disposed",
                                            !._idleCheckInterval = Undefined,
                                            !._configChangeListener = FALSE],
                            workers, "dispose")
       IN  manager' = s.manager /\ workers' = s.workers
    /\ UNCHANGED <<providerVars, modeVars, validationVars, calls, served>>

\* a step of time passes; an idle check that is due runs before more time does
TimePasses ==
    /\ manager.state # "none"
    /\ manager._idleCheckInterval # Timeout(0)
    /\ \/ manager._idleCheckInterval # Undefined
       \/ manager._lastUsedTime.ago < LongAgo
    /\ manager' = [manager EXCEPT
            !._idleCheckInterval =
                IF @ = Undefined THEN @ ELSE Timeout(@.in - TimeStep),
            !._lastUsedTime = Ago(Min(LongAgo, @.ago + TimeStep))]
    /\ UNCHANGED <<providerVars, modeVars, validationVars, workers, calls, served>>

InitManager ==
    /\ text = <<>>
    /\ version = 1
    /\ req = Idle
    /\ out = NoOutput
    /\ other = Idle
    /\ modeConfiguration = modeConfigurationDefault
    /\ NoMode
    /\ NoValidation
    /\ NoManager

NextManager ==
    \/ WorkerManager
    \/ getLanguageServiceWorker
    \/ ClientArrives
    \/ ResourcesSynced
    \/ WorkerGone
    \/ onDidChangeDefaults
    \/ _checkIfIdle
    \/ WorkerManager_dispose
    \/ TimePasses

SpecManager == InitManager /\ [][NextManager]_vars

\* the interval runs when it is due, and time does not stand still
SpecManagerTimed ==
    /\ SpecManager
    /\ WF_vars(_checkIfIdle)
    /\ WF_vars(TimePasses)

(***************************************************************************)
(* Vocabulary of the properties                                            *)
(***************************************************************************)
RECURSIVE Flatten(_)
Flatten(ss) == IF ss = <<>> THEN <<>> ELSE Head(ss) \o Flatten(Tail(ss))

\* the elements of a possibly undefined array
Elements(a) == IF a = Undefined THEN <<>> ELSE a.array

\* a coordinate-bearing field: the analyzer's range and the range returned for it
Field(from, to) == [from |-> from, to |-> to]

EditFields(edits, converted) ==
    [j \in 1..Len(Elements(edits)) |->
        Field(Elements(edits)[j].range, Elements(converted)[j].range)]

CompletionFields(entry, item) ==
    (IF entry.textEdit = Undefined THEN <<Field(Undefined, item.range)>>
     ELSE IF isInsertReplaceEdit(entry.textEdit)
     THEN <<Field(entry.textEdit.insert, item.range.insert),
            Field(entry.textEdit.replace, item.range.replace)>>
     ELSE <<Field(entry.textEdit.range, item.range)>>)
    \o EditFields(entry.additionalTextEdits, item.additionalTextEdits)

PresentationFields(presentation, item) ==
    (IF presentation.textEdit = Undefined THEN <<>>
     ELSE <<Field(presentation.textEdit.range, item.textEdit.range)>>)
    \o EditFields(presentation.additionalTextEdits, item.additionalTextEdits)

RECURSIVE SelectionFields(_, _, _)
SelectionFields(selectionRange, chain, k) ==
    IF selectionRange = Undefined THEN <<>>
    ELSE <<Field(selectionRange.range, chain[k].range)>>
            \o SelectionFields(selectionRange.parent, chain, k + 1)

\* the coordinate-bearing fields of a delivered answer o of a provider that
\* returns ranges, each with the analyzer range it was made from
Fields(o) ==
    IF o.value = Undefined THEN <<>>
    ELSE CASE o.op = "doComplete" ->
                Flatten([i \in 1..Len(o.result.items.array) |->
                    CompletionFields(o.result.items.array[i],
                                     o.value.suggestions.array[i])])
           [] o.op = "doHover" -> <<Field(o.result.range, o.value.range)>>
           [] o.op \in {"findDocumentHighlights", "findDocumentColors"} ->
                EditFields(o.result, o.value)
           [] o.op = "findDefinition" ->
                <<Field(o.result.range, o.value.array[1].range)>>
           [] o.op = "findReferences" -> EditFields(o.result, o.value)
           [] o.op = "doRename" ->
                LET froms == Flatten([i \in 1..Len(o.result.changes.array) |->
                        [j \in 1..Len(o.result.changes.array[i].edits.array) |->
                            o.result.changes.array[i].edits.array[j].range]])
                IN  [k \in 1..Len(froms) |->
                        Field(froms[k], o.value.edits.array[k].edit.range)]
           [] o.op = "findDocumentSymbols" ->
                Flatten([i \in 1..Len(o.result.array) |->
                    <<Field(o.result.array[i].location.range, o.value.array[i].range),
                      Field(o.result.array[i].location.range,
                            o.value.array[i].selectionRange)>>])
           [] o.op = "getColorPresentations" ->
                Flatten([i \in 1..Len(o.result.array) |->
                    PresentationFields(o.result.array[i], o.value.array[i])])
           [] o.op = "getSelectionRanges" ->
                Flatten([i \in 1..Len(o.result.array) |->
                    SelectionFields(o.result.array[i], o.value.array[i].array, 1)])
           [] OTHER -> <<>>

\* a provider call was answered and its answer converted
Delivered(op) == out.stage = "delivered" /\ out.op = op

\* the raw text the worker wrapped for the delivered answer
RawOf(r) == r.model.value

\* characters the wrapper puts before the content on the content's first line
Indent == Len(Lines(TemplateHead)[LineCount(TemplateHead)])

\* lines the wrapper puts before the content's first line
LineOffset == LineCount(TemplateHead) - 1

(***************************************************************************)
(* Properties                                                              *)
(***************************************************************************)

\* C1: diagnostic offset law.  A diagnostic the analyzer reports with its
\* range starting (ending) on 0-based wrapped line L is given to the editor
\* with startLineNumber (endLineNumber) L, that is, on 0-based caller line L-1.
C1_DiagnosticOffsetLaw ==
    Delivered("doValidation") =>
        \A i \in 1..Len(out.result.array) :
            /\ out.value.array[i].startLineNumber
                    = out.result.array[i].range.start.line - LineOffset + 1
            /\ out.value.array[i].endLineNumber
                    = out.result.array[i].range.end.line - LineOffset + 1

\* C2: round trip.  The position handed to the analyzer for a caller position
\* P, mapped back by toRange, is P; a caller range handed to the analyzer and
\* mapped back is the same range.
C2_RoundTrip ==
    req.stage = "resolved" =>
        /\ req.op \in PositionOps =>
                toRange([start |-> req.analyzed, end |-> req.analyzed])
                    = Range(req.position.lineNumber, req.position.column,
                            req.position.lineNumber, req.position.column)
        /\ req.op \in RangeOps => toRange(req.analyzed) = req.range

\* a position request reached the analyzer with a position beyond column 1 of
\* a line after the first, and so did a range request with a non-empty range
C2_Witness_Position ==
    /\ req.stage = "resolved"
    /\ req.op = "doHover"
    /\ req.position.lineNumber = 2
    /\ req.position.column = 2

\* the caller position p of the raw text t as a zero-based position
CallerPosition(p) == [line |-> p.lineNumber - 1, character |-> p.column - 1]

\* the analyzer position q denotes in the wrapped text w the character that
\* the editor position p denotes in the raw text t
SameCharacter(w, q, t, p) ==
    /\ q.line = CallerPosition(p).line + LineOffset
    /\ CallerPosition(p).line = 0 => q.character = CallerPosition(p).character + Indent
    /\ offsetAt(w, q) = Len(TemplateHead) + offsetAt(t, CallerPosition(p))

\* C3: forward mapping.  The position handed to the analyzer denotes in the
\* wrapped text the character that the caller's position denotes in the raw
\* text: one line further down and, on the first line, behind the indentation.
C3_ForwardMapping ==
    req.stage = "resolved" =>
        /\ (req.op \in PositionOps /\ req.position \in EditorPositions(RawOf(req))) =>
                SameCharacter(req.document.text, req.analyzed, RawOf(req), req.position)
        /\ (req.op \in RangeOps /\ req.range \in EditorRanges(RawOf(req))) =>
                /\ SameCharacter(req.document.text, req.analyzed.start, RawOf(req),
                        [lineNumber |-> req.range.startLineNumber,
                         column |-> req.range.startColumn])
                /\ SameCharacter(req.document.text, req.analyzed.end, RawOf(req),
                        [lineNumber |-> req.range.endLineNumber,
                         column |-> req.range.endColumn])

\* C4: backward line mapping.  In every answer that carries ranges, an
\* analyzer position on wrapped line L >= 1 is returned with editor line
\* number L (0-based caller line L-1), for the start and for the end.
C4_BackwardLineMapping ==
    out.stage = "delivered" =>
        \A k \in 1..Len(Fields(out)) :
            LET f == Fields(out)[k] IN
            f.from # Undefined =>
                /\ f.from.start.line >= 1 =>
                        f.to.startLineNumber = f.from.start.line - LineOffset + 1
                /\ f.from.end.line >= 1 =>
                        f.to.endLineNumber = f.from.end.line - LineOffset + 1

\* an answer with a range from a content line to a later line was converted
C4_Witness_Range(op) ==
    /\ Delivered(op)
    /\ \E k \in 1..Len(Fields(out)) :
        /\ Fields(out)[k].from # Undefined
        /\ Fields(out)[k].from.start.line = 1
        /\ Fields(out)[k].from.end.line = 2

C4_Witness ==
    \/ C4_Witness_Range("doRename")
    \/ C4_Witness_Range("getSelectionRanges")

\* C5: character fidelity on the first content line.  An analyzer coordinate
\* on the wrapped line of the content's first line, at character c behind the
\* indentation, is returned at the character c - Indent of raw line 0.
C5_FirstLineCharacter ==
    out.stage = "delivered" =>
        \A k \in 1..Len(Fields(out)) :
            LET f == Fields(out)[k] IN
            f.from # Undefined =>
                /\ (f.from.start.line = LineOffset /\ f.from.start.character >= Indent) =>
                        f.to.startColumn = f.from.start.character - Indent + 1
                /\ (f.from.end.line = LineOffset /\ f.from.end.character >= Indent) =>
                        f.to.endColumn = f.from.end.character - Indent + 1

\* C6: folding-range line law.  A folding range of the analyzer with wrapped
\* lines S and E is returned with the editor's 1-based lines S and E
\* (0-based caller lines S-1 and E-1).
C6_FoldingLineLaw ==
    (Delivered("getFoldingRanges") /\ out.value # Undefined) =>
        \A i \in 1..Len(out.result.array) :
            /\ out.value.array[i].start = out.result.array[i].startLine - LineOffset + 1
            /\ out.value.array[i].end = out.result.array[i].endLine - LineOffset + 1

\* a folding range starting on the selector line or ending on the closing line
SpansWrapper(range, w) ==
    range.startLine < LineOffset \/ range.endLine >= LineCount(w) - 1

\* C7: the list provideFoldingRanges returns holds no folding range that
\* spans the synthetic wrapper boundary: it has no entry for an analyzer
\* range that starts on the selector line or ends on the closing line.
C7_NoWrapperFold ==
    (Delivered("getFoldingRanges") /\ out.value # Undefined) =>
        Len(out.value.array)
            <= Cardinality({i \in 1..Len(out.result.array) :
                    ~SpansWrapper(out.result.array[i], out.document.text)})

\* the line numbers of an answer given to the caller
ReturnedLines(o) ==
    IF o.value = Undefined THEN {}
    ELSE IF o.op = "doValidation"
    THEN UNION {{o.value.array[i].startLineNumber, o.value.array[i].endLineNumber} :
                    i \in 1..Len(o.value.array)}
    ELSE IF o.op = "getFoldingRanges"
    THEN UNION {{o.value.array[i].start, o.value.array[i].end} :
                    i \in 1..Len(o.value.array)}
    ELSE UNION {IF Fields(o)[k].to = Undefined THEN {}
                ELSE {Fields(o)[k].to.startLineNumber, Fields(o)[k].to.endLineNumber} :
                    k \in 1..Len(Fields(o))}

\* C8: every line number returned to the caller lies in the raw document:
\* between 1 and the number of lines of the raw text that was analysed.
C8_InsideRawDocument ==
    out.stage = "delivered" =>
        \A n \in ReturnedLines(out) : n >= 1 /\ n <= LineCount(RawOf(out))

C10_WorkerGetsSnapshot ==
    req.stage \in {"resolved", "rejected"} =>
        /\ req.model # Undefined
        /\ "value" \in DOMAIN req.model
        /\ req.stage = "resolved"
        /\ req.document.text = TemplateHead \o req.model.value \o TemplateTail
        /\ req.document.version = req.model.versionId

\* C11: a worker operation invoked without a document model (the model
\* argument absent or undefined) neither throws nor rejects: its promise
\* resolves (with an empty or absent result).
C11_MissingModelNoOp ==
    (req.stage \in {"resolved", "rejected"} /\ req.model = Undefined) =>
        req.stage = "resolved"

\* a content change of a model of the adapter's language is less than the
\* debounce delay old
InBurst ==
    /\ adapter.state = "constructed"
    /\ IsModelOf(editorModel, LanguageId)
    /\ sinceChange # Undefined
    /\ sinceChange.ago < ValidationDelay

\* the one timeout of the burst is pending and runs 500 ms after the last change
C12_OneTimeoutPending ==
    InBurst =>
        /\ _listener # Undefined
        /\ _listener.handle = Timeout(ValidationDelay - sinceChange.ago)
        /\ stale = <<>>

\* no timeout starts a validation while the last change is less than 500 ms old
C12_NoValidationInBurst == [][TimerFires => ~InBurst]_vars

\* C12: debounced validation.  While the content of a model changes with
\* less than 500 ms between the changes no validation fires for it, and
\* exactly one timeout is pending, which starts the one validation 500 ms
\* after the last change.
C12_Debounce == []C12_OneTimeoutPending /\ C12_NoValidationInBurst

\* C13: diagnostics are cleared on close and on language change.  Once the
\* model is disposed or has another language its markers are the empty list
\* and its content listener is removed, and no timeout still pending and no
\* validation still in progress publishes markers for it while it is not a
\* model of the language.
C13_ClearedWhenGone ==
    (adapter.state = "constructed" /\ ~IsModelOf(editorModel, LanguageId)) =>
        /\ markers = Array(<<>>)
        /\ _listener = Undefined

\* the model's language changed away while a validation was in progress, and
\* the diagnostics arrived after that and were not published
C13_Witness ==
    /\ editorModel # Undefined
    /\ editorModel.modeId # LanguageId
    /\ pass.outcome = "skipped"
    /\ markers = Array(<<>>)

\* C14: stale document.  A validation pass during which the model was
\* disposed, and whose diagnostics arrive when the uri names no model, ends as
\* a no-op: it ends without a call of setModelMarkers (the diagnostics are
\* skipped, or the rejection is logged) and no exception escapes the pass.
C14_StaleIsNoOp ==
    (pass.disposed /\ pass.found = Undefined) =>
        pass.outcome \in {"skipped", "logged"}

\* the diagnostics of a pass arrived after the model had been disposed
C14_Witness ==
    /\ pass.disposed
    /\ pass.found = Undefined
    /\ pass.outcome = "skipped"
    /\ editorModel = Undefined

\* a failed pass is logged and changes neither the markers nor the timeouts
\* and starts no other pass
C15_FailureLogged ==
    [][ValidationFails =>
        /\ pass'.outcome = "logged"
        /\ UNCHANGED <<markers, _listener, stale>>
        /\ Len(passes') = Len(passes) - 1]_vars

\* C15: failure of a validation pass is contained.  Whenever obtaining the
\* worker, doValidation or the conversion fails, the failure is logged and
\* no exception propagates to the timeout or model event that started the
\* pass; the markers stay as they were and no retry is scheduled.
C15_FailureContained == [](pass.outcome # "thrown") /\ C15_FailureLogged

\* the worker resolved with nothing: null or undefined, or for rename an
\* edit without changes
NoResult(o) ==
    \/ o.result = Undefined
    \/ o.op = "doRename" /\ o.result.changes = Undefined

\* C16: absence of a result propagates as no result.  When the worker
\* resolves a provider's call with nothing, the provider resolves with
\* undefined; it neither throws nor rejects.
C16_AbsencePropagates ==
    (out.stage = "delivered" /\ out.op # "doValidation" /\ NoResult(out)) =>
        out.value = Undefined

\* a hover request was answered with nothing, or a rename with an edit that
\* has no changes
C16_Witness ==
    /\ out.stage = "delivered"
    /\ \/ out.op = "doHover" /\ out.result = Undefined
       \/ out.op = "doRename" /\ out.result # Undefined /\ out.result.changes = Undefined
    /\ out.value = Undefined

\* the document of a request the worker has answered is the wrapped form of
\* the snapshot the request was called with
OwnDocument(r) ==
    r.stage = "resolved" =>
        /\ r.document.text = TemplateHead \o r.model.value \o TemplateTail
        /\ r.document.version = r.model.versionId

\* both requests in flight have their own document, and an answer is one the
\* analyzer gives for the document of the request it answers
C17_OwnSnapshot ==
    /\ OwnDocument(req)
    /\ OwnDocument(other)
    /\ out.stage = "delivered" =>
        /\ out.document.text = TemplateHead \o out.model.value \o TemplateTail
        /\ out.result \in AnalyzerResults(out.op, out.document.text)

\* a step of a worker method changes the request it belongs to only: not
\* the other request, and not the caller's document
C17_NoSharedState ==
    [][(AdapterCall \/ WorkerCall) => UNCHANGED <<other, text, version>>]_vars

\* C17: concurrent-request isolation.  However two requests against two
\* versions of a document interleave, each one's result is computed from
\* the wrapped document built from its own snapshot; a worker operation
\* leaves the other request and the caller's document unchanged.
C17_Isolation == []C17_OwnSnapshot /\ C17_NoSharedState

\* two requests are answered by the worker for two versions of the document
\* with different texts, and both wait for their delivery
C17_Witness ==
    /\ req.stage = "resolved"
    /\ other.stage = "resolved"
    /\ req.model.versionId # other.model.versionId
    /\ req.model.value # other.model.value

EmptyDocumentOps == {"doValidation", "doComplete", "findDocumentSymbols"}

\* the converted answer is an empty list
EmptyAnswer(o) ==
    IF o.op = "doComplete"
    THEN o.value # Undefined /\ o.value.suggestions = Array(<<>>)
    ELSE o.value = Array(<<>>)

\* C18: empty-document behaviour.  For an empty raw document validation
\* yields an empty list of diagnostics and completion and document symbols
\* yield empty lists; none of the three calls fails.
C18_EmptyDocument ==
    /\ (version = 1 /\ text = <<>> /\ req.op \in EmptyDocumentOps) =>
            req.stage # "rejected"
    /\ (out.stage = "delivered" /\ out.op \in EmptyDocumentOps /\ RawOf(out) = <<>>) =>
            EmptyAnswer(out)

\* how often the function register is among the registrations
Registrations(register) ==
    Cardinality({i \in DOMAIN providers : providers[i].register = register})

\* C19: after setupMode the provider of a feature is registered, once and
\* under the defaults' language id, if and only if the feature's flag in the
\* mode configuration is enabled; a feature whose flag is false or absent
\* has no provider.
C19_RegisteredIffEnabled ==
    disposables = Array(<<"providers">>) =>
        /\ \A k \in DOMAIN Features :
            Registrations(Registers[Features[k]])
                = IF modeConfiguration[Features[k]] = "true" THEN 1 ELSE 0
        /\ \A i \in DOMAIN providers : providers[i].languageId = LanguageId

\* setupMode ran with one flag enabled, one false and one absent
C19_Witness ==
    /\ disposables = Array(<<"providers">>)
    /\ modeConfiguration.hovers = "true"
    /\ modeConfiguration.rename = "false"
    /\ modeConfiguration.colors = "undefined"
    /\ Len(providers) >= 1

\* C20: markers are published for a model only while the diagnostics flag of
\* the mode configuration is enabled; with the flag disabled no validation
\* request is under way and no marker is set.
C20_DiagnosticsFlag ==
    modeConfiguration.diagnostics # "true" =>
        /\ passes = <<>>
        /\ markers = Array(<<>>)

\* C21: after setupValidation each collaborator is in the role the
\* constructor of the DiagnosticsAdapter gives it (the language id, the worker
\* accessor, the defaults), the constructor has run to its end, and a model
\* of the defaults' language has its content listener, so that it is
\* validated by the worker.
C21_ServedByWorker ==
    adapter.state = "constructed" =>
        /\ adapter._languageId = LanguageId
        /\ adapter._worker = "wa"
        /\ adapter.defaults = "defaults"
        /\ adapter.onDidChange
        /\ IsModelOf(editorModel, LanguageId) => _listener # Undefined
        /\ pass.outcome # "thrown"

\* the workers created and not disposed
Undisposed == {i \in DOMAIN workers : ~workers[i].disposed}

C22_LazySingle ==
    /\ manager._client = Undefined => workers = <<>>
    /\ Cardinality(Undisposed) <= 1
    /\ \A i \in Undisposed : manager._worker = WorkerOf(i)

C22_DisposedBeforeReplaced ==
    [][Len(workers') > Len(workers) =>
            \A i \in DOMAIN workers : workers[i].disposed]_vars

C22_SameClient ==
    [][(getLanguageServiceWorker /\ ~Falsy(manager._client)) =>
            /\ calls'[Len(calls')].client = manager._client
            /\ manager'._client = manager._client
            /\ workers' = workers]_vars

\* C22: the WorkerManager keeps one lazily created worker: there is no worker
\* before the first getLanguageServiceWorker; at most one created worker is
\* undisposed, and it is the manager's; a worker is created only when all
\* earlier ones are disposed; a request made while the client exists gets
\* that client and creates nothing.
C22_SingleWorker ==
    /\ []C22_LazySingle
    /\ C22_DisposedBeforeReplaced
    /\ C22_SameClient

\* a second worker has replaced the first, and two requests wait for its client
C22_Witness ==
    /\ Len(workers) = 2
    /\ workers[1].disposed
    /\ ~workers[2].disposed
    /\ Len(calls) = 2
    /\ calls[1].client = WorkerOf(2)
    /\ calls[2].client = WorkerOf(2)

C23_IffIdle ==
    [][_checkIfIdle =>
            (workers' # workers <=>
                /\ ~Falsy(manager._worker)
                /\ manager._lastUsedTime.ago > STOP_WHEN_IDLE_FOR)]_vars

C23_Within ==
    (manager.state = "constructed" /\ ~Falsy(manager._worker)) =>
        manager._lastUsedTime.ago <= STOP_WHEN_IDLE_FOR + IdleCheckInterval

C23_Eventually ==
    (manager.state = "constructed" /\ ~Falsy(manager._worker)
        /\ manager._lastUsedTime.ago > 0)
    ~> (Falsy(manager._worker) \/ manager._lastUsedTime.ago = 0)

\* C23: an idle check disposes the worker if and only if there is a worker
\* and more than STOP_WHEN_IDLE_FOR has passed since the last request; a
\* worker of a live manager is never older in use than STOP_WHEN_IDLE_FOR
\* plus one check interval; and unless a request arrives the worker is
\* eventually stopped.
C23_IdleTeardown ==
    /\ C23_IffIdle
    /\ []C23_Within
    /\ C23_Eventually

\* an idle check has just stopped a worker
C23_Witness ==
    /\ manager.stoppedBy = "idle"
    /\ manager.state = "constructed"
    /\ Falsy(manager._worker)
    /\ manager._lastUsedTime.ago > STOP_WHEN_IDLE_FOR
    /\ manager._idleCheckInterval = Timeout(IdleCheckInterval)

\* C24: a getLanguageServiceWorker call that resolves gives the client of
\* the worker on which it synced the resources, and that worker is not
\* disposed then; no call fails because the manager's worker was cleared
\* before the resources were synced.
C24_SameWorker ==
    /\ served.outcome = "resolved" =>
            served.client = served.synced /\ ~served.disposed
    /\ served.reason # "TypeError"

\* C25: once the DiagnosticsAdapter is disposed it starts no validation
\* pass, has no content listener, and no event other than the arrival of a
\* result requested earlier changes the markers.
C25_QuietAfterDispose ==
    [][adapter.state = "disposed" =>
            /\ Len(passes') <= Len(passes)
            /\ _listener' = Undefined
            /\ ~ValidationArrives => markers' = markers]_vars

\* C26: a validation pass of the model that was requested before another
\* pass whose result is already published does not publish its own result
\* after it: the markers are those of the pass requested last.
C26_NewestWins ==
    ~(pass.outcome = "published" /\ pass.overtaken /\ ~pass.disposed)

====
